---- MODULE Spec2Model ----
(***************************************************************************)
(* A model of dhcpv6/nclient6/client.go: the DHCPv6 client's pending       *)
(* transaction map, its receive loop, SendAndRead with retryFn, and Close. *)
(*                                                                         *)
(* Every goroutine is a process with a program counter.  A caller          *)
(* goroutine runs one SendAndRead call; a closer goroutine runs one Close  *)
(* call; the receive loop is the goroutine started by New.  A step of the  *)
(* model is one atomic piece of a goroutine: a critical section of         *)
(* pendingMu, one channel operation, one socket operation.                 *)
(***************************************************************************)
EXTENDS Integers, Sequences, FiniteSets, TLC

\* ---------------------------------------------------------------- bounds
NumXIDs == 2        \* TransactionIDs in use: 1..NumXIDs
MaxRetry == 1       \* c.retry ranges over -1..MaxRetry
MaxEvents == 2      \* events of the environment in one run: datagrams, clock
                    \* ticks, context completions, transient socket errors
BufferCap == 2      \* c.bufferCap ranges over 1..BufferCap
BaseTimeout == 1    \* c.timeout in clock ticks

Callers == {"c1", "c2"}      \* goroutines calling SendAndRead
Closers == {"k1", "k2"}      \* goroutines calling Close
XIDs == 1..NumXIDs
MsgTypes == {"Advertise", "Reply"}
Matchers == {"nil", "Advertise"}   \* match == nil, IsMessageType(Advertise)

IterCap == MaxRetry + 1      \* the model follows retryFn's i up to here
NoCaller == "none"
Msgs == [xid : XIDs, typ : MsgTypes]
NilMsg == [xid |-> 0, typ |-> "nil", seq |-> 0]     \* the nil *dhcpv6.Message
\* The message decoded from the n-th datagram the socket delivered.
Stamp(m, n) == [xid |-> m.xid, typ |-> m.typ, seq |-> n]

\* error values
ErrNil == "nil"
ErrNoResponse == "ErrNoResponse"
errDeadlineExceeded == "errDeadlineExceeded"
ctxCanceled == "context.Canceled"
ctxDeadlineExceeded == "context.DeadlineExceeded"
errInUse == "transaction ID already in use"
errWrite == "error writing packet to connection"
errPanic == "panic"      \* not returned: the call panicked on a nil dereference

VARIABLES
    retry,        \* c.retry
    bufferCap,    \* c.bufferCap
    closed,       \* c.closed, the atomic flag
    connCloses,   \* number of times c.conn.Close() ran
    doneCloses,   \* number of times close(c.done) ran
    pending,      \* c.pending: XID -> the caller whose channel pair is registered
    pendingMu,    \* "free" or "receiveLoop" (callers' critical sections are atomic)
    rlpc,         \* receive loop position
    rlmsg,        \* receive loop: the decoded message
    rlp,          \* receive loop: p, the pendingCh looked up (by owner)
    events,       \* events of the environment so far
    drops,        \* datagrams the receive loop read and dropped
    pc,           \* caller position
    xid,          \* msg.TransactionID of the caller's request
    match,        \* the Matcher
    ctx,          \* the caller's context: "live" or its Err()
    iter,         \* retryFn's i
    timeout,      \* retryFn's timeout
    timer,        \* ticks since the select's time.After was created
    elapsed,      \* ticks since the attempt's wait began
    queue,        \* buffer of the current ch of the caller's send
    chCloses,     \* number of times that ch was closed
    sigCloses,    \* number of times the send's done channel was closed
    fnErr,        \* the error fn returned to retryFn
    response,     \* SendAndRead's response variable
    result,       \* what SendAndRead returned: [msg, err]
    writes,       \* successful WriteTo calls of this SendAndRead call
    attempts,     \* WriteTo calls (failed or not) of this SendAndRead call
    kpc,          \* closer position
    hist          \* per-caller observations for the properties

vars == <<retry, bufferCap, closed, connCloses, doneCloses, pending, pendingMu, rlpc, rlmsg,
          rlp, events, drops, pc, xid, match, ctx, iter, timeout, timer, elapsed, queue,
          chCloses, sigCloses, fnErr, response, result, writes, attempts, kpc, hist>>

clientVars == <<retry, bufferCap, closed, connCloses, doneCloses>>
rlVars == <<rlpc, rlmsg, rlp, events, drops>>
regVars == <<pending, pendingMu>>
chanVars == <<queue, chCloses, sigCloses>>
callVars == <<pc, xid, match, ctx, iter, timeout, timer, elapsed, fnErr, response,
              result, writes, attempts>>

NoResult == [msg |-> NilMsg, err |-> "pending"]

HistInit == [atShutdown |-> "none", afterClose |-> FALSE, lastSeq |-> 0]

Init ==
    /\ retry \in -1..MaxRetry
    /\ bufferCap \in 1..BufferCap
    /\ closed = 0
    /\ connCloses = 0
    /\ doneCloses = 0
    /\ pending = [x \in XIDs |-> NoCaller]
    /\ pendingMu = "free"
    /\ rlpc = "read"
    /\ rlmsg = NilMsg
    /\ rlp = NoCaller
    /\ events = 0
    /\ drops = 0
    /\ pc = [c \in Callers |-> "idle"]
    /\ xid = [c \in Callers |-> 1]
    /\ match = [c \in Callers |-> "unset"]
    /\ ctx = [c \in Callers |-> "live"]
    /\ iter = [c \in Callers |-> 0]
    /\ timeout = [c \in Callers |-> BaseTimeout]
    /\ timer = [c \in Callers |-> 0]
    /\ elapsed = [c \in Callers |-> 0]
    /\ queue = [c \in Callers |-> <<>>]
    /\ chCloses = [c \in Callers |-> 0]
    /\ sigCloses = [c \in Callers |-> 0]
    /\ fnErr = [c \in Callers |-> ErrNil]
    /\ response = [c \in Callers |-> NilMsg]
    /\ result = [c \in Callers |-> NoResult]
    /\ writes = [c \in Callers |-> 0]
    /\ attempts = [c \in Callers |-> 0]
    /\ kpc = [k \in Closers |-> "idle"]
    /\ hist = [c \in Callers |-> HistInit]

\* ------------------------------------------------------------ observations
\* hist records, for each caller, facts about the run that the properties
\* refer to; it is written by every step and read by no guard.
ShutdownRaised == doneCloses = 0 /\ doneCloses' > 0
CloseReturned == \E k \in Closers : kpc[k] = "returned"
CtxErrs == {ctxCanceled, ctxDeadlineExceeded}

\* Another case of the waiting caller's select than shutdown and timeout is
\* ready: a buffered message, a closed channel, a completed context.
OtherReady(c) == queue'[c] # <<>> \/ chCloses'[c] > 0 \/ ctx'[c] # "live"

ObserveCaller(c) ==
    [\* where the call was when close(c.done) ran: not in flight ("none"), in
     \* its select with no other case ready then or since ("select"), or
     \* elsewhere in flight ("other")
     atShutdown |-> IF ShutdownRaised
                    THEN IF pc[c] \in {"idle", "done"} THEN "none"
                         ELSE IF pc[c] = "wait" /\ ~OtherReady(c) THEN "select"
                         ELSE "other"
                    ELSE IF hist[c].atShutdown = "select" /\ pc'[c] = "wait"
                            /\ OtherReady(c)
                    THEN "other"
                    ELSE hist[c].atShutdown,
     \* the call began after the Close that shut the client down had returned
     afterClose |-> IF pc[c] = "idle" /\ pc'[c] # "idle"
                    THEN CloseReturned ELSE hist[c].afterClose,
     \* the last message the waiting call took from its channel
     lastSeq |-> IF pc'[c] # "wait" THEN 0
                 ELSE IF pc[c] = "wait" /\ Len(queue'[c]) < Len(queue[c])
                 THEN Head(queue[c]).seq
                 ELSE hist[c].lastSeq]

Observe == hist' = [c \in Callers |-> ObserveCaller(c)]

\* ------------------------------------------------------------------ Close
\* A Close that does not look at c.closed.
CloseCAS_NoGuard(k) ==
    /\ kpc[k] = "idle"
    /\ k = "k2" => kpc["k1"] # "idle"
    /\ closed' = 1
    /\ kpc' = [kpc EXCEPT ![k] = "connClose"]
    /\ UNCHANGED <<retry, bufferCap, connCloses, doneCloses, regVars, rlVars, chanVars, callVars>>
    /\ Observe

\* Close, line 113: the compare-and-swap on c.closed.  The loser returns nil.
\* Closers are interchangeable: k2 is the later one to call Close.
CloseCAS(k) ==
    /\ kpc[k] = "idle"
    /\ k = "k2" => kpc["k1"] # "idle"
    /\ IF closed = 0
       THEN closed' = 1 /\ kpc' = [kpc EXCEPT ![k] = "connClose"]
       ELSE closed' = closed /\ kpc' = [kpc EXCEPT ![k] = "returnedNoop"]
    /\ UNCHANGED <<retry, bufferCap, connCloses, doneCloses, regVars, rlVars, chanVars, callVars>>
    /\ Observe

\* Close, line 117: c.conn.Close().
CloseConn(k) ==
    /\ kpc[k] = "connClose"
    /\ connCloses' = connCloses + 1
    /\ kpc' = [kpc EXCEPT ![k] = "closeDone"]
    /\ UNCHANGED <<retry, bufferCap, closed, doneCloses, regVars, rlVars, chanVars, callVars>>
    /\ Observe

\* Close, line 127: close(c.done).
CloseDone(k) ==
    /\ kpc[k] = "closeDone"
    /\ doneCloses' = doneCloses + 1
    /\ kpc' = [kpc EXCEPT ![k] = "wgWait"]
    /\ UNCHANGED <<retry, bufferCap, closed, connCloses, regVars, rlVars, chanVars, callVars>>
    /\ Observe

\* A Close that returns without c.wg.Wait().
CloseWait_NoWait(k) ==
    /\ kpc[k] = "wgWait"
    /\ kpc' = [kpc EXCEPT ![k] = "returned"]
    /\ UNCHANGED <<clientVars, regVars, rlVars, chanVars, callVars>>
    /\ Observe

\* Close, lines 130-132: c.wg.Wait() returns once the receive loop ran wg.Done.
CloseWait(k) ==
    /\ kpc[k] = "wgWait"
    /\ rlpc = "exited"
    /\ kpc' = [kpc EXCEPT ![k] = "returned"]
    /\ UNCHANGED <<clientVars, regVars, rlVars, chanVars, callVars>>
    /\ Observe

\* ----------------------------------------------------------- receive loop
\* lines 149-161: ReadFrom returns a datagram that decodes to message m.
RLRead ==
    /\ rlpc = "read"
    /\ connCloses = 0
    /\ events < MaxEvents
    /\ \E m \in Msgs : rlmsg' = Stamp(m, events + 1)
    /\ rlpc' = "lock"
    /\ events' = events + 1
    /\ UNCHANGED <<clientVars, regVars, rlp, drops, chanVars, callVars, kpc>>
    /\ Observe

\* A receive loop that returns on a datagram that does not decode.
RLReadGarbage_Exit ==
    /\ rlpc = "read"
    /\ connCloses = 0
    /\ events < MaxEvents
    /\ events' = events + 1
    /\ drops' = drops + 1
    /\ rlpc' = "exited"
    /\ UNCHANGED <<clientVars, regVars, rlmsg, rlp, chanVars, callVars, kpc>>
    /\ Observe

\* lines 157-161: the datagram does not decode; keep listening.
RLReadGarbage ==
    /\ rlpc = "read"
    /\ connCloses = 0
    /\ events < MaxEvents
    /\ events' = events + 1
    /\ drops' = drops + 1
    /\ UNCHANGED <<clientVars, regVars, rlpc, rlmsg, rlp, chanVars, callVars, kpc>>
    /\ Observe

\* lines 150-155: ReadFrom fails (always so once the socket is closed, and on
\* an error of an open one); the goroutine returns and the deferred wg.Done
\* runs.
RLReadErr ==
    /\ rlpc = "read"
    /\ IF connCloses > 0
       THEN events' = events
       ELSE events < MaxEvents /\ events' = events + 1
    /\ rlpc' = "exited"
    /\ UNCHANGED <<clientVars, regVars, rlmsg, rlp, drops, chanVars, callVars, kpc>>
    /\ Observe

\* A receive loop that hands the message to some pending waiter, whatever its
\* TransactionID.
RLLock_AnyEntry ==
    /\ rlpc = "lock"
    /\ pendingMu = "free"
    /\ IF \A x \in XIDs : pending[x] = NoCaller
       THEN /\ rlpc' = "read" /\ rlp' = NoCaller /\ pendingMu' = "free"
            /\ rlmsg' = NilMsg
            /\ drops' = drops + 1
       ELSE /\ rlpc' = "select"
            /\ rlp' = pending[CHOOSE x \in XIDs : pending[x] # NoCaller]
            /\ pendingMu' = "receiveLoop"
            /\ rlmsg' = rlmsg
            /\ drops' = drops
    /\ UNCHANGED <<clientVars, pending, events, chanVars, callVars, kpc>>
    /\ Observe

\* lines 163-165 (and 175 when there is no entry): lock pendingMu, look up
\* the message's TransactionID.
RLLock ==
    /\ rlpc = "lock"
    /\ pendingMu = "free"
    /\ IF pending[rlmsg.xid] = NoCaller
       THEN /\ rlpc' = "read" /\ rlp' = NoCaller /\ pendingMu' = "free"
            /\ rlmsg' = NilMsg
            /\ drops' = drops + 1
       ELSE /\ rlpc' = "select" /\ rlp' = pending[rlmsg.xid]
            /\ pendingMu' = "receiveLoop"
            /\ rlmsg' = rlmsg
            /\ drops' = drops
    /\ UNCHANGED <<clientVars, pending, events, chanVars, callVars, kpc>>
    /\ Observe

\* A receive loop that deletes the cancelled entry and leaves its channel open.
RLSelectDone_NoClose ==
    /\ rlpc = "select"
    /\ sigCloses[rlp] > 0
    /\ pending' = [pending EXCEPT ![rlmsg.xid] = NoCaller]
    /\ pendingMu' = "free"
    /\ rlpc' = "read"
    /\ rlp' = NoCaller
    /\ rlmsg' = NilMsg
    /\ UNCHANGED <<clientVars, events, drops, chanVars, callVars, kpc>>
    /\ Observe

\* lines 167-169, 175: case <-p.done.
RLSelectDone ==
    /\ rlpc = "select"
    /\ sigCloses[rlp] > 0
    /\ chCloses' = [chCloses EXCEPT ![rlp] = @ + 1]
    /\ pending' = [pending EXCEPT ![rlmsg.xid] = NoCaller]
    /\ pendingMu' = "free"
    /\ rlpc' = "read"
    /\ rlp' = NoCaller
    /\ rlmsg' = NilMsg
    /\ UNCHANGED <<clientVars, events, drops, queue, sigCloses, callVars, kpc>>
    /\ Observe

\* A channel that hands out the newest message first.
RLSelectSend_Prepend ==
    /\ rlpc = "select"
    /\ chCloses[rlp] = 0
    /\ Len(queue[rlp]) < bufferCap
    /\ queue' = [queue EXCEPT ![rlp] = <<rlmsg>> \o @]
    /\ pendingMu' = "free"
    /\ rlpc' = "read"
    /\ rlp' = NoCaller
    /\ rlmsg' = NilMsg
    /\ UNCHANGED <<clientVars, pending, events, drops, chCloses, sigCloses, callVars, kpc>>
    /\ Observe

\* lines 171-172, 175: case p.ch <- msg.  A send on a closed channel panics.
RLSelectSend ==
    /\ rlpc = "select"
    /\ \/ chCloses[rlp] > 0
       \/ Len(queue[rlp]) < bufferCap
    /\ IF chCloses[rlp] > 0
       THEN rlpc' = "panic" /\ UNCHANGED <<queue, pendingMu, rlp, rlmsg>>
       ELSE /\ queue' = [queue EXCEPT ![rlp] = Append(@, rlmsg)]
            /\ pendingMu' = "free"
            /\ rlpc' = "read"
            /\ rlp' = NoCaller
            /\ rlmsg' = NilMsg
    /\ UNCHANGED <<clientVars, pending, events, drops, chCloses, sigCloses, callVars, kpc>>
    /\ Observe

\* ------------------------------------------------------------ SendAndRead
\* IsMessageType, lines 227-231, and the nil Matcher of line 328.
Matches(m, packet) == m = "nil" \/ packet.typ = m

\* The Matcher is an argument of SendAndRead that nothing reads before the
\* first packet arrives: the model draws it there, once for the call.
MatcherOf(c) == IF match[c] = "unset" THEN Matchers ELSE {match[c]}

\* What SendAndRead returns for retryFn's error, lines 335-341.
SendAndReadResult(err, resp) ==
    IF err = errDeadlineExceeded THEN [msg |-> NilMsg, err |-> ErrNoResponse]
    ELSE IF err # ErrNil THEN [msg |-> NilMsg, err |-> err]
    ELSE [msg |-> resp, err |-> ErrNil]

\* retryFn's loop condition, line 348.
RetryCond(i, r) == i < r \/ r < 0

\* retryFn's for statement, lines 348 and 363, at counter i with timeout t:
\* run fn again, or leave the loop with errDeadlineExceeded, which SendAndRead
\* turns into ErrNoResponse (line 336).  Runs of unlimited retries are followed
\* up to IterCap iterations only.
LoopHead(c, i, t) ==
    /\ iter' = [iter EXCEPT ![c] = i]
    /\ timeout' = [timeout EXCEPT ![c] = t]
    /\ IF RetryCond(i, retry)
       THEN /\ pc' = [pc EXCEPT ![c] = IF i < IterCap THEN "send" ELSE "capped"]
            /\ UNCHANGED result
       ELSE /\ pc' = [pc EXCEPT ![c] = "done"]
            /\ result' = [result EXCEPT ![c] =
                             SendAndReadResult(errDeadlineExceeded, response[c])]

\* The TransactionIDs a new call may carry.  IDs are interchangeable, so a
\* call uses an ID that is in use or the least unused one.
FreshXIDs == {x \in XIDs : x = 1 \/ \E d \in Callers : pc[d] # "idle" /\ xid[d] = x - 1}

\* SendAndRead is called (line 307); retryFn starts with timeout = c.timeout
\* and i = 0 (lines 345, 348).  Callers are interchangeable: c2 is the later.
Start(c) ==
    /\ pc[c] = "idle"
    /\ c = "c2" => pc["c1"] # "idle"
    /\ \E x \in FreshXIDs : xid' = [xid EXCEPT ![c] = x]
    /\ LoopHead(c, 0, BaseTimeout)
    /\ UNCHANGED <<clientVars, regVars, rlVars, chanVars, match, ctx, timer,
                   elapsed, fnErr, response, writes, attempts, kpc>>
    /\ Observe

\* The caller's context completes: cancel() is called or its deadline passes.
CtxDone(c) ==
    /\ pc[c] \notin {"idle", "done", "capped"}
    /\ ctx[c] = "live"
    /\ events < MaxEvents
    /\ events' = events + 1
    /\ \E e \in CtxErrs : ctx' = [ctx EXCEPT ![c] = e]
    /\ UNCHANGED <<clientVars, regVars, rlpc, rlmsg, rlp, drops, chanVars, pc, xid, match, iter, timeout,
                   timer, elapsed, fnErr, response, result, writes, attempts, kpc>>
    /\ Observe

\* A send that registers without looking for an entry in use.
SendRegister_Overwrite(c) ==
    /\ pc[c] = "send"
    /\ pendingMu = "free"
    /\ pending' = [pending EXCEPT ![xid[c]] = c]
    /\ queue' = [queue EXCEPT ![c] = <<>>]
    /\ chCloses' = [chCloses EXCEPT ![c] = 0]
    /\ sigCloses' = [sigCloses EXCEPT ![c] = 0]
    /\ pc' = [pc EXCEPT ![c] = "write"]
    /\ UNCHANGED <<clientVars, pendingMu, rlVars, xid, match, ctx, iter, timeout, timer,
                   elapsed, fnErr, response, result, writes, attempts, kpc>>
    /\ Observe

\* send, lines 265-274: the critical section that registers the TransactionID.
\* When the ID is in use send fails, fn returns the error (line 312), retryFn
\* returns it (line 359) and SendAndRead returns it (line 339).
SendRegister(c) ==
    /\ pc[c] = "send"
    /\ pendingMu = "free"
    /\ IF pending[xid[c]] # NoCaller
       THEN /\ fnErr' = [fnErr EXCEPT ![c] = errInUse]
            /\ pc' = [pc EXCEPT ![c] = "done"]
            /\ result' = [result EXCEPT ![c] = SendAndReadResult(errInUse, response[c])]
            /\ UNCHANGED <<pending, chanVars>>
       ELSE /\ pending' = [pending EXCEPT ![xid[c]] = c]
            /\ queue' = [queue EXCEPT ![c] = <<>>]
            /\ chCloses' = [chCloses EXCEPT ![c] = 0]
            /\ sigCloses' = [sigCloses EXCEPT ![c] = 0]
            /\ pc' = [pc EXCEPT ![c] = "write"]
            /\ UNCHANGED <<fnErr, result>>
    /\ UNCHANGED <<clientVars, pendingMu, rlVars, xid, match, ctx, iter, timeout, timer,
                   elapsed, response, writes, attempts, kpc>>
    /\ Observe

\* send, lines 293 and 297: WriteTo succeeds; fn enters its select loop and
\* creates the first time.After(timeout).
WriteOK(c) ==
    /\ pc[c] = "write"
    /\ connCloses = 0
    /\ writes' = [writes EXCEPT ![c] = @ + 1]
    /\ attempts' = [attempts EXCEPT ![c] = @ + 1]
    /\ timer' = [timer EXCEPT ![c] = 0]
    /\ elapsed' = [elapsed EXCEPT ![c] = 0]
    /\ pc' = [pc EXCEPT ![c] = "wait"]
    /\ UNCHANGED <<clientVars, regVars, rlVars, chanVars, xid, match, ctx, iter, timeout,
                   fnErr, response, result, kpc>>
    /\ Observe

\* A send that returns the write error without calling cancel().
WriteFail_NoCancel(c) ==
    /\ pc[c] = "write"
    /\ IF connCloses > 0
       THEN events' = events
       ELSE events < MaxEvents /\ events' = events + 1
    /\ attempts' = [attempts EXCEPT ![c] = @ + 1]
    /\ fnErr' = [fnErr EXCEPT ![c] = errWrite]
    /\ pc' = [pc EXCEPT ![c] = "done"]
    /\ result' = [result EXCEPT ![c] = [msg |-> NilMsg, err |-> errWrite]]
    /\ UNCHANGED <<clientVars, regVars, rlpc, rlmsg, rlp, drops, chanVars, xid, match, ctx, iter,
                   timeout, timer, elapsed, response, writes, kpc>>
    /\ Observe

\* send, lines 293-296: WriteTo fails (always so on a closed socket, and on a
\* transient error of an open one); cancel() runs and send returns the error.
WriteFail(c) ==
    /\ pc[c] = "write"
    /\ IF connCloses > 0
       THEN events' = events
       ELSE events < MaxEvents /\ events' = events + 1
    /\ attempts' = [attempts EXCEPT ![c] = @ + 1]
    /\ fnErr' = [fnErr EXCEPT ![c] = errWrite]
    /\ pc' = [pc EXCEPT ![c] = "rem1"]
    /\ UNCHANGED <<clientVars, regVars, rlpc, rlmsg, rlp, drops, chanVars, xid, match, ctx, iter, timeout,
                   timer, elapsed, response, result, writes, kpc>>
    /\ Observe

\* fn returns err from its select loop; the deferred rem() is next.
FnReturn(c, err) ==
    /\ fnErr' = [fnErr EXCEPT ![c] = err]
    /\ pc' = [pc EXCEPT ![c] = "rem1"]
    /\ timer' = [timer EXCEPT ![c] = 0]
    /\ elapsed' = [elapsed EXCEPT ![c] = 0]

\* A select whose shutdown case returns nil.
SelectShutdown_ReturnsNil(c) ==
    /\ pc[c] = "wait"
    /\ doneCloses > 0
    /\ FnReturn(c, ErrNil)
    /\ UNCHANGED <<clientVars, regVars, rlVars, chanVars, xid, match, ctx, iter, timeout,
                   response, result, writes, attempts, kpc>>
    /\ Observe

\* lines 318-319: case <-c.done.
SelectShutdown(c) ==
    /\ pc[c] = "wait"
    /\ doneCloses > 0
    /\ FnReturn(c, ErrNoResponse)
    /\ UNCHANGED <<clientVars, regVars, rlVars, chanVars, xid, match, ctx, iter, timeout,
                   response, result, writes, attempts, kpc>>
    /\ Observe

\* lines 321-322: case <-time.After(timeout).
SelectTimeout(c) ==
    /\ pc[c] = "wait"
    /\ timer[c] >= timeout[c]
    /\ FnReturn(c, errDeadlineExceeded)
    /\ UNCHANGED <<clientVars, regVars, rlVars, chanVars, xid, match, ctx, iter, timeout,
                   response, result, writes, attempts, kpc>>
    /\ Observe

\* lines 324-325: case <-ctx.Done().
SelectCtx(c) ==
    /\ pc[c] = "wait"
    /\ ctx[c] # "live"
    /\ FnReturn(c, ctx[c])
    /\ UNCHANGED <<clientVars, regVars, rlVars, chanVars, xid, match, ctx, iter, timeout,
                   response, result, writes, attempts, kpc>>
    /\ Observe

\* lines 327-332: case packet := <-ch with a buffered message.  A rejected
\* packet goes round the for loop, whose select makes a new time.After.  The
\* arrival stamp stays behind when the packet becomes the response.
SelectRecv(c) ==
    /\ pc[c] = "wait"
    /\ queue[c] # <<>>
    /\ queue' = [queue EXCEPT ![c] = Tail(@)]
    /\ \E m \in MatcherOf(c) :
        /\ match' = [match EXCEPT ![c] = m]
        /\ IF Matches(m, Head(queue[c]))
           THEN /\ response' = [response EXCEPT ![c] = Stamp(Head(queue[c]), 0)]
                /\ FnReturn(c, ErrNil)
           ELSE /\ timer' = [timer EXCEPT ![c] = 0]
                /\ UNCHANGED <<response, fnErr, pc, elapsed>>
    /\ UNCHANGED <<clientVars, regVars, rlVars, chCloses, sigCloses, xid, ctx, iter,
                   timeout, result, writes, attempts, kpc>>
    /\ Observe

\* lines 327-332: case packet := <-ch on a closed, drained channel: packet is
\* nil.  A nil Matcher accepts it; IsMessageType dereferences it (line 229)
\* and panics, and the deferred rem() runs as the panic unwinds fn.
SelectRecvClosed(c) ==
    /\ pc[c] = "wait"
    /\ queue[c] = <<>>
    /\ chCloses[c] > 0
    /\ \E m \in MatcherOf(c) :
        /\ match' = [match EXCEPT ![c] = m]
        /\ IF m = "nil"
           THEN /\ response' = [response EXCEPT ![c] = NilMsg]
                /\ FnReturn(c, ErrNil)
           ELSE /\ FnReturn(c, errPanic)
                /\ UNCHANGED response
    /\ UNCHANGED <<clientVars, regVars, rlVars, chanVars, xid, ctx, iter, timeout,
                   result, writes, attempts, kpc>>
    /\ Observe

\* A cancel that goes for the lock without closing done first.
Rem1_NoSignal(c) ==
    /\ pc[c] = "rem1"
    /\ pc' = [pc EXCEPT ![c] = "rem2"]
    /\ UNCHANGED <<clientVars, regVars, rlVars, chanVars, xid, match, ctx, iter,
                   timeout, timer, elapsed, fnErr, response, result, writes, attempts, kpc>>
    /\ Observe

\* cancel, line 283: close(done).
Rem1(c) ==
    /\ pc[c] = "rem1"
    /\ sigCloses' = [sigCloses EXCEPT ![c] = @ + 1]
    /\ pc' = [pc EXCEPT ![c] = "rem2"]
    /\ UNCHANGED <<clientVars, regVars, rlVars, queue, chCloses, xid, match, ctx, iter,
                   timeout, timer, elapsed, fnErr, response, result, writes, attempts, kpc>>
    /\ Observe

\* retryFn's switch, lines 349-360, on the error fn returned.
RetrySwitch(err) ==
    IF err = ErrNil THEN "return"
    ELSE IF err = ctxDeadlineExceeded THEN "retry"
    ELSE "return"

\* A cancel that leaves the registration in place for the next attempt.
RemoveEntry_Keep(c) == UNCHANGED <<chCloses, pending>>

\* cancel, lines 285-290: under pendingMu, close and delete whatever entry the
\* map holds for the TransactionID.
RemoveEntry(c) ==
    IF pending[xid[c]] # NoCaller
    THEN /\ chCloses' = [chCloses EXCEPT ![pending[xid[c]]] = @ + 1]
         /\ pending' = [pending EXCEPT ![xid[c]] = NoCaller]
    ELSE UNCHANGED <<chCloses, pending>>

\* The second half of cancel (lines 285-290) and, fn having returned, retryFn's
\* switch (lines 349-360) and SendAndRead's return (lines 335-341), which
\* touch only the caller's locals.  Nothing refers to the send's channel any
\* more: what it still buffers is dropped with it.
Rem2(c) ==
    /\ pc[c] = "rem2"
    /\ pendingMu = "free"
    /\ RemoveEntry(c)
    /\ queue' = [queue EXCEPT ![c] = <<>>]
    /\ IF RetrySwitch(fnErr[c]) = "retry"
       THEN LoopHead(c, iter[c] + 1, timeout[c] * 2)
       ELSE /\ result' = [result EXCEPT ![c] = SendAndReadResult(fnErr[c], response[c])]
            /\ pc' = [pc EXCEPT ![c] = "done"]
            /\ UNCHANGED <<timeout, iter>>
    /\ UNCHANGED <<clientVars, pendingMu, rlVars, sigCloses, xid, match, ctx,
                   timer, elapsed, fnErr, response, writes, attempts, kpc>>
    /\ Observe

\* ------------------------------------------------------------------- time
Waiting == {c \in Callers : pc[c] = "wait"}

\* One clock tick.  Time goes on whether or not a caller whose time.After has
\* fired has been scheduled to take that case of its select.
Tick ==
    /\ Waiting # {}
    /\ events < MaxEvents
    /\ events' = events + 1
    /\ timer' = [c \in Callers |-> IF c \in Waiting THEN timer[c] + 1 ELSE timer[c]]
    /\ elapsed' = [c \in Callers |-> IF c \in Waiting THEN elapsed[c] + 1 ELSE elapsed[c]]
    /\ UNCHANGED <<clientVars, regVars, rlpc, rlmsg, rlp, drops, chanVars, pc, xid, match, ctx,
                   iter, timeout, fnErr, response, result, writes, attempts, kpc>>
    /\ Observe

Next ==
    \/ \E k \in Closers : CloseCAS(k)
    \/ \E k \in Closers : CloseConn(k)
    \/ \E k \in Closers : CloseDone(k)
    \/ \E k \in Closers : CloseWait(k)
    \/ RLRead
    \/ RLReadGarbage
    \/ RLReadErr
    \/ RLLock
    \/ RLSelectDone
    \/ RLSelectSend
    \/ \E c \in Callers : Start(c)
    \/ \E c \in Callers : CtxDone(c)
    \/ \E c \in Callers : SendRegister(c)
    \/ \E c \in Callers : WriteOK(c)
    \/ \E c \in Callers : WriteFail(c)
    \/ \E c \in Callers : SelectShutdown(c)
    \/ \E c \in Callers : SelectTimeout(c)
    \/ \E c \in Callers : SelectCtx(c)
    \/ \E c \in Callers : SelectRecv(c)
    \/ \E c \in Callers : SelectRecvClosed(c)
    \/ \E c \in Callers : Rem1(c)
    \/ \E c \in Callers : Rem2(c)
    \/ Tick

Spec == Init /\ [][Next]_vars

\* Scheduling: a goroutine that can take its next step takes it.  Close, once
\* past its compare-and-swap, runs on; ReadFrom on a closed socket returns;
\* the receive loop's lock and select, a caller's registration, write,
\* shutdown case and cancel run when they can.  Arrivals of datagrams, clock
\* ticks, context completions and new calls are the environment's and are
\* not forced.
Fairness ==
    /\ \A k \in Closers :
         WF_vars(CloseConn(k)) /\ WF_vars(CloseDone(k)) /\ WF_vars(CloseWait(k))
    /\ WF_vars(connCloses > 0 /\ RLReadErr)
    /\ WF_vars(RLLock)
    /\ WF_vars(RLSelectDone)
    /\ WF_vars(RLSelectSend)
    /\ \A c \in Callers :
         /\ WF_vars(SendRegister(c))
         /\ WF_vars(WriteOK(c) \/ WriteFail(c))
         /\ WF_vars(SelectShutdown(c))
         /\ WF_vars(Rem1(c))
         /\ WF_vars(Rem2(c))

\* The client of WithRetry(MaxRetry) and withBufferCap(1).
LiveInit == Init /\ retry = MaxRetry /\ bufferCap = 1

LiveSpec == LiveInit /\ [][Next]_vars /\ Fairness

\* ------------------------------------------------------------- properties
Done(c) == pc[c] = "done"
Failed(c, e) == result[c] = [msg |-> NilMsg, err |-> e]

\* The one entry the map holds for a TransactionID is the open channel of a
\* call in flight under that ID.
RegistryEntriesLive ==
    \A x \in XIDs : pending[x] # NoCaller =>
        /\ xid[pending[x]] = x
        /\ chCloses[pending[x]] = 0
        /\ pc[pending[x]] \in {"write", "wait", "rem1", "rem2"}
\* A step that registers an ID already in the map ends the call with the
\* in-use error and touches neither the socket nor any registration.
SecondRegistrationFails ==
    \A c \in Callers :
        (pc[c] = "send" /\ pending[xid[c]] # NoCaller /\ pc'[c] # "send") =>
            /\ pc'[c] = "done"
            /\ result'[c] = [msg |-> NilMsg, err |-> errInUse]
            /\ writes'[c] = writes[c] /\ attempts'[c] = attempts[c]
            /\ UNCHANGED <<pending, queue, chCloses, sigCloses>>
\* C1: the registry holds at most one waiter per TransactionID (the open
\* channel of a call in flight under that ID); and a registration for an ID
\* that is registered fails with the in-use error at once (no retry), writes
\* nothing and leaves the registry, every delivery queue and every
\* cancellation signal as they were.
C1_OneWaiterPerID == [](RegistryEntriesLive) /\ [][SecondRegistrationFails]_vars
\* C1 witness: a call has failed with the in-use error while the call that
\* holds the ID is still registered and waiting.
C1_Witness ==
    \E c \in Callers :
        /\ Done(c) /\ Failed(c, errInUse)
        /\ pending[xid[c]] \in Callers \ {c}
        /\ pc[pending[xid[c]]] = "wait"

\* C2: every message in a waiter's delivery queue, and every message a call
\* returns, carries the TransactionID of that call's request.
C2_ExactDemux ==
    \A c \in Callers :
        /\ \A i \in 1..Len(queue[c]) : queue[c][i].xid = xid[c]
        /\ response[c] # NilMsg => response[c].xid = xid[c]
        /\ result[c].msg # NilMsg => result[c].msg.xid = xid[c]
\* C2 witness: two calls under different IDs have each returned a message of
\* their own ID.
C2_Witness ==
    /\ xid["c1"] # xid["c2"]
    /\ \A c \in Callers : Done(c) /\ result[c].err = ErrNil /\ result[c].msg.xid = xid[c]

\* The call received no packet, its context is live, the client is open, no
\* write failed and its TransactionID was free.
NoResponseRun(c) ==
    /\ ctx[c] = "live"
    /\ closed = 0
    /\ match[c] = "unset"
    /\ attempts[c] = writes[c]
    /\ result[c].err # errInUse
\* C3: a call that gets no response, is not cancelled and runs on an open
\* client, with retry count N >= 0, has written N+1 datagrams when it returns,
\* and returns ErrNoResponse.
C3_SendsNPlusOne ==
    \A c \in Callers :
        (Done(c) /\ retry >= 0 /\ NoResponseRun(c)) =>
            writes[c] = retry + 1 /\ Failed(c, ErrNoResponse)

\* C4: with unlimited retries a call does not return because an attempt timed
\* out.
C4_UnlimitedNeverTimesOut ==
    \A c \in Callers : (Done(c) /\ retry < 0) => fnErr[c] # errDeadlineExceeded

\* C5: once an attempt has ended on the caller's context (cancelled or deadline
\* exceeded), the call returns that context's error and makes no further
\* attempt.
C5_ContextEndsCall ==
    [][\A c \in Callers :
         (pc[c] = "rem2" /\ fnErr[c] \in CtxErrs /\ pc'[c] # "rem2") =>
             pc'[c] = "done" /\ result'[c] = [msg |-> NilMsg, err |-> fnErr[c]]]_vars

\* C6 as claimed: every call in flight when close(c.done) runs returns
\* ErrNoResponse.
C6_AllInFlightNoResponse ==
    \A c \in Callers :
        (Done(c) /\ hist[c].atShutdown # "none") => Failed(c, ErrNoResponse)
\* C6 as amended: a call that is in its select when close(c.done) runs, with no
\* other case of the select ready then or later (no buffered message, channel
\* open, context live), returns ErrNoResponse.
C6_WaitingNoResponse ==
    \A c \in Callers :
        (Done(c) /\ hist[c].atShutdown = "select") => Failed(c, ErrNoResponse)
\* C6 witness: such a call has returned ErrNoResponse.
C6_Witness ==
    \E c \in Callers :
        Done(c) /\ hist[c].atShutdown = "select" /\ Failed(c, ErrNoResponse)

\* C7 as claimed: a call started after Close returned fails with ErrNoResponse
\* and leaves no entry for its TransactionID.
C7_AfterCloseNoResponse ==
    \A c \in Callers :
        (Done(c) /\ hist[c].afterClose) =>
            Failed(c, ErrNoResponse) /\ pending[xid[c]] = NoCaller
\* C7 as amended: a call started after the Close that shut the client down
\* returned writes nothing, returns no message and an error (the write error,
\* or the in-use error, or ErrNoResponse when the retry count is 0), and its
\* own registration is not in the registry when it returns.
C7_AfterCloseFails ==
    \A c \in Callers :
        (Done(c) /\ hist[c].afterClose) =>
            /\ writes[c] = 0
            /\ result[c].msg = NilMsg
            /\ IF retry = 0 THEN result[c].err = ErrNoResponse
               ELSE result[c].err \in {errWrite, errInUse}
            /\ pending[xid[c]] # c
\* C7 witness: such a call has registered, failed its one write and returned
\* the write error.
C7_Witness ==
    \E c \in Callers :
        Done(c) /\ hist[c].afterClose /\ Failed(c, errWrite) /\ attempts[c] = 1

\* C8 as claimed: when any Close call has returned, the receive loop has
\* exited.
C8_AnyCloseAfterLoopExit ==
    \A k \in Closers : kpc[k] \in {"returned", "returnedNoop"} => rlpc = "exited"
\* C8 as amended: when the Close call that won the closed flag has returned,
\* the receive loop has exited.
C8_FirstCloseAfterLoopExit ==
    \A k \in Closers : kpc[k] = "returned" => rlpc = "exited"
\* C8 witness: the first Close has closed the socket, waited and returned.
C8_Witness ==
    \E k \in Closers : kpc[k] = "returned" /\ connCloses = 1 /\ rlpc = "exited"

\* The socket and c.done are closed at most once, the socket first, and both
\* are closed when the first Close has returned.
ClosedOnce ==
    /\ connCloses <= 1
    /\ doneCloses <= connCloses
    /\ closed = 0 => connCloses = 0
    /\ \A k \in Closers : kpc[k] = "returned" => connCloses = 1 /\ doneCloses = 1
\* A Close call that finds c.closed set returns without changing anything.
LaterCloseNoEffect ==
    \A k \in Closers :
        (kpc[k] = "idle" /\ closed = 1 /\ kpc'[k] # "idle") =>
            /\ kpc'[k] = "returnedNoop"
            /\ UNCHANGED <<clientVars, regVars, rlVars, chanVars, callVars>>
\* C9: the socket and c.done are each closed at most once, exactly once when
\* the first Close has returned, the socket before c.done; and a Close call
\* that loses the compare-and-swap changes nothing of the client.
C9_CloseIdempotent == [](ClosedOnce) /\ [][LaterCloseNoEffect]_vars
\* C9 witness: a first Close ran to its end and a second one returned nil.
C9_Witness ==
    /\ kpc["k1"] = "returned" /\ kpc["k2"] = "returnedNoop"
    /\ connCloses = 1 /\ doneCloses = 1

\* C10: an attempt does not outlast its timeout: once timeout ticks have
\* passed since the wait began, the select's timeout case is ready.
C10_AttemptWithinTimeout ==
    \A c \in Callers :
        (pc[c] = "wait" /\ elapsed[c] >= timeout[c]) => timer[c] >= timeout[c]

\* After the failed write the call only runs cancel and returns the write
\* error; the failed write is its last, and its channel is closed and its
\* registration gone when it returns.
WriteFailureIsLast ==
    \A c \in Callers :
        fnErr[c] = errWrite =>
            /\ pc[c] \in {"rem1", "rem2", "done"}
            /\ attempts[c] = writes[c] + 1
            /\ Done(c) => /\ Failed(c, errWrite)
                          /\ chCloses[c] = 1 /\ sigCloses[c] = 1
                          /\ pending[xid[c]] # c
\* The step that returns the write error leaves no entry for the
\* TransactionID.
WriteFailureReturn ==
    \A c \in Callers :
        (pc[c] = "rem2" /\ fnErr[c] = errWrite /\ pc'[c] # "rem2") =>
            pc'[c] = "done" /\ pending'[xid[c]] = NoCaller
\* C11: when a write fails the call fails at once with the write error and
\* the failed write is not retried (no write follows it, whatever the retry
\* count); on return the TransactionID is not in the registry and the call's
\* delivery queue is closed.
C11_WriteFailureEndsCall == [](WriteFailureIsLast) /\ [][WriteFailureReturn]_vars
\* C11 witness: a write on the open socket failed and the call returned the
\* write error, its queue closed and its TransactionID free.
C11_Witness ==
    \E c \in Callers :
        /\ Done(c) /\ Failed(c, errWrite) /\ connCloses = 0
        /\ chCloses[c] = 1 /\ pending[xid[c]] = NoCaller

\* C12: a call returns a message and a nil error, or no message and an error;
\* it never returns nil with a nil error, and never passes the nil of a closed
\* delivery queue to the Matcher.
C12_MessageXorError ==
    \A c \in Callers :
        Done(c) =>
            /\ result[c].err # errPanic
            /\ \/ result[c].msg # NilMsg /\ result[c].err = ErrNil
               \/ result[c].msg = NilMsg /\ result[c].err # ErrNil

\* C13: the messages of a delivery queue stand in the order the receive loop
\* read them, behind every message the waiting call has already taken and
\* before the message the receive loop is about to enqueue.
C13_DeliveredInArrivalOrder ==
    \A c \in Callers :
        /\ \A i \in 1..Len(queue[c]) :
              /\ queue[c][i].seq > hist[c].lastSeq
              /\ \A j \in 1..(i - 1) : queue[c][j].seq < queue[c][i].seq
              /\ (rlpc = "select" /\ rlp = c) => queue[c][i].seq < rlmsg.seq
        /\ (rlpc = "select" /\ rlp = c) => rlmsg.seq > hist[c].lastSeq
\* C13 witness: two messages wait in the queue of a waiting call.
C13_Witness ==
    \E c \in Callers : pc[c] = "wait" /\ Len(queue[c]) = 2

\* C14 as claimed: between two attempts of a call its TransactionID stays in
\* the registry, with the one queue made before the first send.
C14_OneRegistrationPerCall ==
    \A c \in Callers : (pc[c] = "send" /\ iter[c] > 0) => pending[xid[c]] = c
\* C14 as amended: every attempt makes its own registration.  The cleanup at
\* the end of an attempt that is retried leaves the TransactionID out of the
\* registry and the attempt's queue closed, and the next attempt registers the
\* free ID with a new, empty, open queue and an open cancellation signal.
C14_RegistrationPerAttempt ==
    [][\A c \in Callers :
         /\ (pc[c] = "rem2" /\ pc'[c] = "send") =>
                pending'[xid[c]] = NoCaller /\ chCloses'[c] = 1
         /\ (pc[c] = "send" /\ pc'[c] = "write") =>
                /\ pending[xid[c]] = NoCaller /\ pending'[xid[c]] = c
                /\ queue'[c] = <<>> /\ chCloses'[c] = 0 /\ sigCloses'[c] = 0]_vars
\* C14 witness: a call waits in its second attempt under its second
\* registration.
C14_Witness ==
    \E c \in Callers :
        iter[c] = 1 /\ pc[c] = "wait" /\ pending[xid[c]] = c /\ attempts[c] = 2

\* The receive loop waits in its select for room in a full queue whose waiter
\* has not cancelled.
RLBlocked ==
    /\ rlpc = "select"
    /\ Len(queue[rlp]) >= bufferCap
    /\ sigCloses[rlp] = 0 /\ chCloses[rlp] = 0
\* C15: while the receive loop is blocked on the full queue of one
\* TransactionID, the registry lock is free for the registration or the
\* cleanup of a call under another TransactionID.
C15_LockFreeWhileBlocked ==
    \A d \in Callers :
        (RLBlocked /\ pc[d] \in {"send", "rem2"} /\ xid[d] # rlmsg.xid) =>
            pendingMu = "free"

\* C16: once a Close call has won the closed flag, the receive loop exits and
\* that Close returns, whatever the receive loop was doing.
C16_CloseTerminates ==
    (closed = 1) ~> (rlpc = "exited" /\ \E k \in Closers : kpc[k] = "returned")
\* C16 witness: Close has begun while the receive loop holds the lock, blocked
\* on a full queue.
C16_Witness == RLBlocked /\ pendingMu = "receiveLoop" /\ closed = 1

\* The receive loop leaves its select for a waiter whose done is closed.
RLDispatchCancelled == rlpc = "select" /\ sigCloses[rlp] > 0 /\ rlpc' # "select"
\* It closed the queue and deleted the entry, enqueueing nothing.
RLFinalized ==
    /\ chCloses'[rlp] = chCloses[rlp] + 1
    /\ pending'[rlmsg.xid] = NoCaller
    /\ queue' = queue
\* It enqueued the message on a queue with room and left the entry alone.
RLEnqueued ==
    /\ Len(queue[rlp]) < bufferCap
    /\ queue'[rlp] = Append(queue[rlp], rlmsg)
    /\ UNCHANGED <<pending, chCloses>>
\* C17 as claimed: dispatching to a waiter whose cancellation signal is set,
\* the receive loop closes the queue and removes the entry, never enqueues.
C17_CancelledNeverEnqueued == [][RLDispatchCancelled => RLFinalized]_vars
\* C17 as amended: dispatching to a waiter whose cancellation signal is set,
\* the receive loop closes the queue and removes the entry when the queue is
\* full; when the queue has room it does that or enqueues the message.
C17_CancelledFinalizedOrEnqueued ==
    [][RLDispatchCancelled => (RLFinalized \/ RLEnqueued)]_vars
\* C17 witness: the only call has closed its done and waits for the lock, and
\* the receive loop has closed its queue and removed its entry.
C17_Witness ==
    \E c \in Callers :
        /\ pc[c] = "rem2" /\ sigCloses[c] = 1
        /\ chCloses[c] = 1 /\ pending[xid[c]] = NoCaller
        /\ \A d \in Callers \ {c} : pc[d] = "idle"

\* No channel is closed twice, the receive loop never sends on a closed
\* channel, and a call that registered has, when it returns, its queue and its
\* done closed once and its registration out of the registry.
ClosedExactlyOnce ==
    /\ rlpc # "panic"
    /\ rlpc = "select" => chCloses[rlp] = 0
    /\ \A c \in Callers :
          /\ chCloses[c] <= 1 /\ sigCloses[c] <= 1
          /\ (Done(c) /\ attempts[c] > 0) =>
                chCloses[c] = 1 /\ sigCloses[c] = 1 /\ pending[xid[c]] # c
\* An entry leaves the registry in the step that closes its queue, and a
\* queue is closed in the step that removes its entry.
RemovedWithClose ==
    /\ \A x \in XIDs :
          (pending[x] # NoCaller /\ pending'[x] # pending[x]) =>
              pending'[x] = NoCaller /\ chCloses'[pending[x]] = chCloses[pending[x]] + 1
    /\ \A c \in Callers :
          chCloses'[c] > chCloses[c] =>
              pending[xid[c]] = c /\ pending'[xid[c]] = NoCaller
\* A queue is closed by the receive loop's select or by the cleanup of the
\* call that owns it.
ClosedByLoopOrOwner ==
    \A c \in Callers :
        chCloses'[c] > chCloses[c] =>
            \/ rlpc = "select" /\ rlp = c /\ rlpc' = "read"
            \/ pc[c] = "rem2" /\ pc'[c] # "rem2"
\* C18: every registration is removed once and its queue closed once, by the
\* receive loop or by its own call's cleanup; no queue and no done is closed
\* twice and the receive loop never sends on a closed queue.
C18_RemovedOnceByLoopOrOwner ==
    [](ClosedExactlyOnce) /\ [][RemovedWithClose /\ ClosedByLoopOrOwner]_vars

\* C19: the cleanup of a call closes no queue and removes no entry of a
\* registration another call made.
C19_CleanupOwnRegistrationOnly ==
    [][\A c \in Callers :
         (pc[c] = "rem2" /\ pc'[c] # "rem2") =>
             \A d \in Callers \ {c} :
                 /\ chCloses'[d] = chCloses[d]
                 /\ pending[xid[d]] = d => pending'[xid[d]] = d]_vars

\* C20: a datagram that does not decode, or whose TransactionID has no entry,
\* is dropped: the registry and every queue and signal stay as they were, and
\* the receive loop goes back to reading with the lock released.
C20_DropLeavesStateAlone ==
    [][drops' > drops =>
         /\ rlpc' = "read" /\ pendingMu' = "free"
         /\ UNCHANGED <<pending, queue, chCloses, sigCloses>>]_vars
\* C20 witness: the first datagram was dropped and the second is in the queue
\* of a waiting call.
C20_Witness ==
    /\ drops = 1
    /\ \E c \in Callers :
          pc[c] = "wait" /\ queue[c] # <<>> /\ Head(queue[c]).seq = 2

TypeOK ==
    /\ retry \in -1..MaxRetry
    /\ closed \in {0, 1}
    /\ pending \in [XIDs -> Callers \cup {NoCaller}]
    /\ pendingMu \in {"free", "receiveLoop"}
    /\ rlpc \in {"read", "lock", "select", "exited", "panic"}
    /\ bufferCap \in 1..BufferCap
    /\ \A c \in Callers : Len(queue[c]) <= bufferCap
====
